---- MODULE Spec2Model ----
(***************************************************************************)
(* Model of HexOustGame/src/resources/audio/main.py: a script that lists   *)
(* one directory and converts every *.mp3 entry to a .wav file through     *)
(* pydub (AudioSegment.from_mp3 / export), reporting on the console.       *)
(*                                                                         *)
(* File names are sequences of one-character strings so that lower(),      *)
(* endswith() and os.path.splitext() are computed, not assumed.            *)
(***************************************************************************)
EXTENDS Integers, Sequences, FiniteSets, TLC

VARIABLES
    pc,         \* position of the script
    dirState,   \* the configured directory: "ok", "missing" or "noperm"
    fs,         \* content of every file name in the target directory
    pre,        \* fs as it was when the listing was taken
    listing,    \* the list os.listdir returned
    listed,     \* has os.listdir returned a list
    listCalls,  \* number of os.listdir calls made
    idx,        \* position of the for loop in listing
    found_mp3,  \* the local flag of convert_mp3_to_wav
    cur,        \* filename, mp3_path, wav_filename, wav_path of the iteration
    audio,      \* the decoded AudioSegment (the name it was decoded from)
    out,        \* console output, one record per printed line
    attempts,   \* conversions attempted, in order (from_mp3 calls)
    results,    \* how each concluded attempt went, in order
    checked,    \* the state of the directory when __main__ tested it
    writes,     \* paths the export step has written to
    exitCode,   \* exit status of the process, -1 while it runs
    envOps      \* number of file-system changes made by other processes

vars == <<pc, dirState, fs, pre, listing, listed, listCalls, idx, found_mp3,
          cur, audio, out, attempts, results, checked, writes, exitCode,
          envOps>>

\* ---------------------------------------------------------------- bounds
MaxEntries == 3
MaxEnvOps == 1

\* ------------------------------------------------------------ file names
NoName == <<>>
Dot == "."

a_b_mp3  == <<"a", ".", "b", ".", "m", "p", "3">>
a_b_MP3  == <<"a", ".", "b", ".", "M", "P", "3">>
dot_mp3  == <<".", "m", "p", "3">>
a_b_wav  == <<"a", ".", "b", ".", "w", "a", "v">>
mp3      == <<"m", "p", "3">>
dot_wav  == <<".", "w", "a", "v">>
dot_mp3_wav == <<".", "m", "p", "3", ".", "w", "a", "v">>
n_mp3    == <<"n", ".", "m", "p", "3">>
n_wav    == <<"n", ".", "w", "a", "v">>

\* names a directory may hold before the run: two names with several dots
\* that differ only in the case of the extension, a name with nothing before
\* the extension, a .wav file bearing their output name, a name without dot
InitialNames == {a_b_mp3, a_b_MP3, dot_mp3, a_b_wav, mp3}
\* names other processes may create while the run is in progress
LateNames == {n_mp3}
\* every name the model tracks
AllNames == InitialNames \cup LateNames \cup {dot_wav, dot_mp3_wav, n_wav}

\* ------------------------------------------------------- configuration
AUDIO_DIRECTORY == <<".">>
OUTPUT_FORMAT == <<"w", "a", "v">>
MP3_SUFFIX == <<".", "m", "p", "3">>

\* ------------------------------------------------------ string helpers
\* str.lower() on the characters file names are made of
LowerChar(c) ==
    CASE c = "M" -> "m"
      [] c = "P" -> "p"
      [] OTHER -> c

Lower(s) == [i \in 1..Len(s) |-> LowerChar(s[i])]

EndsWith(s, suf) ==
    /\ Len(s) >= Len(suf)
    /\ SubSeq(s, Len(s) - Len(suf) + 1, Len(s)) = suf

\* index of the last "." of s, 0 when there is none (str.rfind + 1)
LastDot(s) ==
    LET D == {i \in 1..Len(s) : s[i] = Dot}
    IN  IF D = {} THEN 0 ELSE CHOOSE i \in D : \A j \in D : j <= i

\* os.path.splitext(name)[0]: the part before the last dot, unless every
\* character before that dot is a dot too (leading dots are no extension)
SplitExtRoot(s) ==
    LET d == LastDot(s)
    IN  IF d > 0 /\ \E j \in 1..(d - 1) : s[j] /= Dot
        THEN SubSeq(s, 1, d - 1)
        ELSE s

\* os.path.join(directory, name) for a name without separators
Join(directory, name) == [dir |-> directory, name |-> name]

\* the suffix test without the dot
IsCandidate_NoDot(filename) == EndsWith(Lower(filename), <<"m", "p", "3">>)

\* a directory entry qualifies when its lowercased name ends with ".mp3"
IsCandidate(filename) == EndsWith(Lower(filename), MP3_SUFFIX)

\* the extension is not replaced
WavFilename_KeepsName(filename) == filename

\* the output name: splitext root + "." + OUTPUT_FORMAT
WavFilename(filename) == SplitExtRoot(filename) \o <<Dot>> \o OUTPUT_FORMAT

\* the existence check always passes
IsDir_Unchecked(state) == TRUE

\* os.path.isdir(AUDIO_DIRECTORY)
IsDir(state) == state /= "missing"

\* the loop steps over the entry after the current one
NextIndex_SkipsOne(i) == i + 2

\* the for loop moves to the next entry of the list
NextIndex(i) == i + 1

\* the flag is not consulted
ReportNone_Always(found) == TRUE

\* "if not found_mp3:" after the loop
ReportNone(found) == ~found

\* the except clauses, as the kind of report each prints; every exception
\* derived from Exception is caught by one of them
Errors == {"CouldntDecodeError", "FileNotFoundError", "Exception"}

\* the generic except clause is missing
Classify_NoCatchAll(exc) ==
    CASE exc = "CouldntDecodeError" -> "decode_failed"
      [] exc = "FileNotFoundError"  -> "file_missing"
      [] OTHER                      -> "uncaught"

\* the generic except clause comes before the FileNotFoundError clause
Classify_GenericFirst(exc) ==
    CASE exc = "CouldntDecodeError" -> "decode_failed"
      [] exc = "FileNotFoundError"  -> "unexpected"
      [] exc = "Exception"          -> "unexpected"
      [] OTHER                      -> "uncaught"

Classify(exc) ==
    CASE exc = "CouldntDecodeError" -> "decode_failed"
      [] exc = "FileNotFoundError"  -> "file_missing"
      [] exc = "Exception"          -> "unexpected"
      [] OTHER                      -> "uncaught"

\* one printed line: its kind and the names its text contains
Report(kind, file, wav) == [kind |-> kind, file |-> file, wav |-> wav]

\* the line an except clause prints; all three name the source, none the output
ErrorReport(exc, c) == Report(Classify(exc), c.filename, NoName)

\* how one attempt went: the outcome of the decode call, of the export call,
\* and whether the output name was taken when the export started
Result(decode, export, existed) ==
    [decode |-> decode, export |-> export, existed |-> existed]

OutcomeKinds == {"converted", "decode_failed", "file_missing", "unexpected"}

NoCur == [filename |-> NoName, mp3_path |-> Join(NoName, NoName),
          wav_filename |-> NoName, wav_path |-> Join(NoName, NoName)]

\* ----------------------------------------------------------- file system
Files(f) == {n \in AllNames : f[n] /= "absent"}

Put(f, name, content) ==
    [n \in AllNames |-> IF n = name THEN content ELSE f[n]]

\* the orders in which os.listdir may return the entries
Perms(S) ==
    {s \in [1..Cardinality(S) -> S] :
        \A i, j \in 1..Cardinality(S) : i /= j => s[i] /= s[j]}

\* what AudioSegment.from_mp3 may do on a path: a missing file cannot be
\* opened; an existing one decodes or fails in any of the caught ways
DecodeOutcomes(f, name) ==
    IF f[name] = "absent" THEN {"FileNotFoundError"} ELSE {"ok"} \cup Errors

\* what audio.export may do: it writes the whole file, or fails before the
\* file is opened, or fails after it was opened leaving a truncated file
ExportOutcomes == {"ok", "FileNotFoundError", "Exception", "ExceptionMidWrite"}

ExportError(r) == IF r = "ExceptionMidWrite" THEN "Exception" ELSE r

\* an export that leaves an existing file alone
ExportEffect_NoClobber(f, name, r) ==
    CASE r = "ok" /\ f[name] = "absent" -> Put(f, name, "wav")
      [] r = "ExceptionMidWrite"        -> Put(f, name, "trunc")
      [] OTHER                          -> f

\* the directory after an export to name ended as r
ExportEffect(f, name, r) ==
    CASE r = "ok"                -> Put(f, name, "wav")
      [] r = "ExceptionMidWrite" -> Put(f, name, "trunc")
      [] OTHER                   -> f

\* --------------------------------------------------------------- initial
Init ==
    /\ pc = "main"
    /\ dirState \in {"ok", "missing", "noperm"}
    /\ \E S \in SUBSET InitialNames :
          /\ Cardinality(S) <= MaxEntries
          /\ dirState /= "ok" => S = {}
          /\ fs = [n \in AllNames |-> IF n \in S THEN "orig" ELSE "absent"]
    /\ pre = fs
    /\ listing = <<>>
    /\ listed = FALSE
    /\ listCalls = 0
    /\ idx = 1
    /\ found_mp3 = FALSE
    /\ cur = NoCur
    /\ audio = NoName
    /\ out = <<>>
    /\ attempts = <<>>
    /\ results = <<>>
    /\ checked = "unchecked"
    /\ writes = {}
    /\ exitCode = -1
    /\ envOps = 0

\* --------------------------------------------------------------- actions
\* __main__: the existence check, then the call or the error line
Main ==
    /\ pc = "main"
    /\ checked' = dirState
    /\ IF IsDir(dirState)
       THEN /\ pc' = "scan"
            /\ out' = out
       ELSE /\ pc' = "final"
            /\ out' = Append(out, Report("dir_not_found", NoName, NoName))
    /\ UNCHANGED <<dirState, fs, pre, listing, listed, listCalls, idx,
                   found_mp3, cur, audio, attempts, results, writes, exitCode,
                   envOps>>

\* convert_mp3_to_wav up to the listing; os.listdir is outside every try,
\* so an OSError from it ends the process with a traceback
Scan ==
    /\ pc = "scan"
    /\ listCalls' = listCalls + 1
    /\ found_mp3' = FALSE
    /\ IF dirState = "ok"
       THEN /\ \E l \in Perms(Files(fs)) : listing' = l
            /\ listed' = TRUE
            /\ pre' = fs
            /\ idx' = 1
            /\ pc' = "loop"
            /\ out' = Append(out, Report("scanning", NoName, NoName))
            /\ exitCode' = exitCode
       ELSE /\ pc' = "exited"
            /\ exitCode' = 1
            /\ out' = out \o <<Report("scanning", NoName, NoName),
                               Report("traceback", NoName, NoName)>>
            /\ UNCHANGED <<listing, listed, pre, idx>>
    /\ UNCHANGED <<dirState, fs, cur, audio, attempts, results, checked,
                   writes, envOps>>

\* an entry that fails the suffix test: nothing happens
LoopSkip ==
    /\ pc = "loop"
    /\ idx <= Len(listing)
    /\ ~IsCandidate(listing[idx])
    /\ idx' = NextIndex(idx)
    /\ UNCHANGED <<pc, dirState, fs, pre, listing, listed, listCalls,
                   found_mp3, cur, audio, out, attempts, results, checked,
                   writes, exitCode, envOps>>

\* an entry that passes: flag, paths, "Found MP3", "Converting ..."
LoopFound ==
    /\ pc = "loop"
    /\ idx <= Len(listing)
    /\ IsCandidate(listing[idx])
    /\ LET filename == listing[idx]
           wav_filename == WavFilename(filename)
       IN  /\ cur' = [filename |-> filename,
                      mp3_path |-> Join(AUDIO_DIRECTORY, filename),
                      wav_filename |-> wav_filename,
                      wav_path |-> Join(AUDIO_DIRECTORY, wav_filename)]
           /\ out' = out \o <<Report("found", filename, NoName),
                              Report("converting", filename, wav_filename)>>
    /\ found_mp3' = TRUE
    /\ pc' = "decode"
    /\ UNCHANGED <<dirState, fs, pre, listing, listed, listCalls, idx, audio,
                   attempts, results, checked, writes, exitCode, envOps>>

\* what follows a failed decode or export: the except clause prints and the
\* loop goes on, or nothing catches the exception and the process ends
Raise(exc) ==
    IF Classify(exc) = "uncaught"
    THEN /\ pc' = "exited"
         /\ exitCode' = 1
         /\ out' = Append(out, Report("traceback", NoName, NoName))
         /\ idx' = idx
    ELSE /\ pc' = "loop"
         /\ exitCode' = exitCode
         /\ out' = Append(out, ErrorReport(exc, cur))
         /\ idx' = NextIndex(idx)

\* AudioSegment.from_mp3(mp3_path)
Decode ==
    /\ pc = "decode"
    /\ attempts' = Append(attempts, [src |-> cur.mp3_path, dst |-> cur.wav_path])
    /\ \E r \in DecodeOutcomes(fs, cur.mp3_path.name) :
          IF r = "ok"
          THEN /\ audio' = cur.mp3_path.name
               /\ pc' = "export"
               /\ UNCHANGED <<out, idx, exitCode, results>>
          ELSE /\ audio' = audio
               /\ results' = Append(results, Result(r, "not_run", FALSE))
               /\ Raise(r)
    /\ UNCHANGED <<dirState, fs, pre, listing, listed, listCalls, found_mp3,
                   cur, checked, writes, envOps>>

\* audio.export(wav_path, format=OUTPUT_FORMAT) and the success line
Export ==
    /\ pc = "export"
    /\ \E r \in ExportOutcomes :
          /\ fs' = ExportEffect(fs, cur.wav_path.name, r)
          /\ results' = Append(results,
                 Result("ok", ExportError(r), cur.wav_path.name \in Files(fs)))
          /\ writes' = IF fs' /= fs \/ r = "ok"
                       THEN writes \cup {cur.wav_path} ELSE writes
          /\ IF r = "ok"
             THEN /\ out' = Append(out, Report("converted", NoName, cur.wav_filename))
                  /\ idx' = NextIndex(idx)
                  /\ pc' = "loop"
                  /\ exitCode' = exitCode
             ELSE Raise(ExportError(r))
    /\ audio' = NoName
    /\ UNCHANGED <<dirState, pre, listing, listed, listCalls, found_mp3, cur,
                   attempts, checked, envOps>>

\* the loop is over: the flag decides the "No .mp3 files found" line
LoopEnd ==
    /\ pc = "loop"
    /\ idx > Len(listing)
    /\ out' = IF ReportNone(found_mp3)
              THEN Append(out, Report("none_found", NoName, NoName))
              ELSE out
    /\ pc' = "final"
    /\ UNCHANGED <<dirState, fs, pre, listing, listed, listCalls, idx,
                   found_mp3, cur, audio, attempts, results, checked, writes,
                   exitCode, envOps>>

\* the last line of the script, then the interpreter exits
Final ==
    /\ pc = "final"
    /\ out' = Append(out, Report("finished", NoName, NoName))
    /\ exitCode' = 0
    /\ pc' = "exited"
    /\ UNCHANGED <<dirState, fs, pre, listing, listed, listCalls, idx,
                   found_mp3, cur, audio, attempts, results, checked, writes,
                   envOps>>

\* ----------------------------------------------------------- environment
Scanning == pc \in {"loop", "decode", "export"}

\* another process removes the directory between isdir and listdir
EnvRemoveDir ==
    /\ pc = "scan"
    /\ dirState = "ok"
    /\ envOps < MaxEnvOps
    /\ dirState' = "missing"
    /\ fs' = [n \in AllNames |-> "absent"]
    /\ envOps' = envOps + 1
    /\ UNCHANGED <<pc, pre, listing, listed, listCalls, idx, found_mp3, cur,
                   audio, out, attempts, results, checked, writes, exitCode>>

\* another process creates a file after the listing was taken
EnvCreate ==
    /\ Scanning
    /\ envOps < MaxEnvOps
    /\ \E n \in LateNames :
          /\ fs[n] = "absent"
          /\ fs' = Put(fs, n, "orig")
    /\ envOps' = envOps + 1
    /\ UNCHANGED <<pc, dirState, pre, listing, listed, listCalls, idx,
                   found_mp3, cur, audio, out, attempts, results, checked,
                   writes, exitCode>>

\* another process deletes a listed candidate before it is decoded
EnvDelete ==
    /\ pc = "loop"
    /\ envOps < MaxEnvOps
    /\ \E i \in idx..Len(listing) :
          /\ IsCandidate(listing[i])
          /\ fs[listing[i]] /= "absent"
          /\ fs' = Put(fs, listing[i], "absent")
    /\ envOps' = envOps + 1
    /\ UNCHANGED <<pc, dirState, pre, listing, listed, listCalls, idx,
                   found_mp3, cur, audio, out, attempts, results, checked,
                   writes, exitCode>>

Next ==
    \/ Main
    \/ Scan
    \/ LoopSkip
    \/ LoopFound
    \/ Decode
    \/ Export
    \/ LoopEnd
    \/ Final
    \/ EnvRemoveDir
    \/ EnvCreate
    \/ EnvDelete

Spec == Init /\ [][Next]_vars

\* ================================================================ claims
\* vocabulary of the properties below, stated without the code's operators
EndsMp3(f) == EndsWith(Lower(f), <<".", "m", "p", "3">>)

DropSuffix(f) == SubSeq(f, 1, Len(f) - Len(MP3_SUFFIX))

InDir(name) == [dir |-> AUDIO_DIRECTORY, name |-> name]

Listed == {listing[i] : i \in 1..Len(listing)}

Lines(kind) == {i \in 1..Len(out) : out[i].kind = kind}

Ended == pc = "exited"

AttemptsOf(f) == {k \in 1..Len(attempts) : attempts[k].src = InDir(f)}

\* C1: once a run over a listing has ended, every listed name that ends with
\* ".mp3" in any case was converted exactly once, to the name without its
\* last four characters plus ".wav", in the same directory.
C1_OneAttemptSuffixReplaced ==
    (Ended /\ listed /\ exitCode = 0) =>
        \A f \in Listed :
            EndsMp3(f) =>
                /\ Cardinality(AttemptsOf(f)) = 1
                /\ \A k \in AttemptsOf(f) :
                      attempts[k].dst =
                          InDir(DropSuffix(f) \o <<".", "w", "a", "v">>)

\* C2 as stated: a listed name that does not end with ".mp3" appears in no
\* printed line, is the source of no attempt, and every file written is the
\* output of an attempt on a name that does end with ".mp3".
C2_NonCandidateNeverMentioned ==
    listed =>
        /\ \A e \in Listed :
              ~EndsMp3(e) =>
                  /\ \A i \in 1..Len(out) : out[i].file /= e /\ out[i].wav /= e
                  /\ AttemptsOf(e) = {}
        /\ \A w \in writes :
              \E k \in 1..Len(attempts) :
                  attempts[k].dst = w /\ EndsMp3(attempts[k].src.name)

\* C2 amended: a listed name that does not end with ".mp3" is never the file
\* a printed line reports on and never the source of an attempt; a line names
\* it only as the output name of the conversion of a name ending with ".mp3",
\* and every file written is the output of such a conversion.
C2_NonCandidateNeverProcessed ==
    listed =>
        /\ \A e \in Listed :
              ~EndsMp3(e) =>
                  /\ \A i \in 1..Len(out) :
                        /\ out[i].file /= e
                        /\ out[i].wav = e =>
                              /\ out[i].kind \in {"converting", "converted"}
                              /\ \E i0 \in 1..i :
                                    /\ out[i0].kind = "converting"
                                    /\ out[i0].wav = e
                                    /\ EndsMp3(out[i0].file)
                                    /\ out[i0].file \in Listed
                  /\ AttemptsOf(e) = {}
        /\ \A w \in writes :
              \E k \in 1..Len(attempts) :
                  attempts[k].dst = w /\ EndsMp3(attempts[k].src.name)

\* a run ended over a listing holding a.b.wav and mp3 next to a.b.mp3, and the
\* conversion of a.b.mp3 was reported under the name a.b.wav
C2_Witness ==
    /\ Ended
    /\ {a_b_wav, mp3, a_b_mp3} \subseteq Listed
    /\ \E i \in Lines("converted") : out[i].wav = a_b_wav

\* C3: while the scan runs the "no .mp3 files" line is not printed; after a
\* scan that matched nothing it is printed exactly once, after every other
\* line of the scan, and nothing was attempted or written; after a scan that
\* matched something it is never printed, whatever the outcomes were.
C3_NoneFoundOnceIffNoMatch ==
    LET none == Lines("none_found")
        noMatch == \A f \in Listed : ~EndsMp3(f)
    IN  /\ ~listed => none = {}
        /\ listed =>
              IF noMatch /\ pc \in {"final", "exited"}
              THEN /\ Cardinality(none) = 1
                   /\ \A i \in none : \A j \in 1..Len(out) :
                         j > i => out[j].kind = "finished"
                   /\ attempts = <<>>
                   /\ writes = {}
              ELSE none = {}

\* a run ended over a listing of two names, neither ending with ".mp3"
C3_Witness ==
    /\ Ended
    /\ Listed = {a_b_wav, mp3}
    /\ Cardinality(Lines("none_found")) = 1

\* C6: a process that has ended ended with status 0 and printed the
\* completion line exactly once, as its last line.
C6_AlwaysExitsZeroWithFinalLine ==
    Ended =>
        /\ exitCode = 0
        /\ Cardinality(Lines("finished")) = 1
        /\ out[Len(out)].kind = "finished"

\* C4: nothing raised by a conversion ends the process, and when the run
\* has ended every listed name ending with ".mp3" has been attempted,
\* whatever happened to the ones before it.
C4_FailuresNeverAbortBatch ==
    listed =>
        /\ exitCode /= 1
        /\ Ended => \A f \in Listed : EndsMp3(f) => AttemptsOf(f) /= {}

\* a run ended after three attempts of which the first failed to decode and
\* the second failed in the export
C4_Witness ==
    /\ Ended
    /\ Len(attempts) = 3
    /\ Len(results) = 3
    /\ results[1].decode = "CouldntDecodeError"
    /\ results[2].export = "Exception"

\* C5: when the directory was missing at the existence check, the directory
\* is never listed, nothing is found, attempted or written, and the
\* directory-not-found line is printed exactly once.
C5_MissingDirectoryNoScan ==
    checked = "missing" =>
        /\ listCalls = 0
        /\ ~listed
        /\ Lines("scanning") = {}
        /\ Lines("found") = {}
        /\ attempts = <<>>
        /\ writes = {}
        /\ Cardinality(Lines("dir_not_found")) = 1

\* a run ended on a directory that was missing at the check
C5_Witness == Ended /\ checked = "missing"

\* C7: a step of the script changes only files it exports to; every path
\* it exports to lies in the target directory and is the path of no listed
\* name ending with ".mp3", and no file is removed.
C7_WritesOnlyOutputsInDirectory ==
    [][envOps' = envOps =>
          /\ \A n \in AllNames :
                fs'[n] /= fs[n] =>
                    /\ InDir(n) \in writes'
                    /\ fs'[n] /= "absent"
          /\ \A w \in writes' :
                /\ w.dir = AUDIO_DIRECTORY
                /\ \A f \in Listed : EndsMp3(f) => w /= InDir(f)]_vars

\* a run over two names ending with ".mp3" ended with an output written
C7_Witness ==
    /\ Ended
    /\ Cardinality({f \in Listed : EndsMp3(f)}) >= 2
    /\ writes /= {}
    /\ \E k \in 1..Len(results) : results[k].export = "ok"

\* C8: an export that succeeds onto a name that was already taken replaces
\* the file, and the candidate is reported as converted and nothing else.
C8_ExistingOutputOverwritten ==
    [][(/\ Len(results') = Len(results) + 1
        /\ results'[Len(results')].existed
        /\ results'[Len(results')].export = "ok")
       => /\ fs'[cur.wav_filename] = "wav"
          /\ out' = Append(out, [kind |-> "converted", file |-> NoName,
                                 wav |-> cur.wav_filename])
          /\ exitCode' = exitCode
          /\ pc' = "loop"]_vars

\* a.b.wav existed before the run next to a.b.mp3 and now holds the export
C8_Witness ==
    /\ Ended
    /\ pre[a_b_wav] = "orig"
    /\ fs[a_b_wav] = "wav"
    /\ \E k \in 1..Len(results) :
          /\ attempts[k].dst = InDir(a_b_wav)
          /\ results[k].existed
          /\ results[k].export = "ok"

\* the k-th smallest element of a set of line numbers
Kth(S, k) == CHOOSE i \in S : Cardinality({j \in S : j <= i}) = k

\* the outcome the claim assigns to an attempt
ExpectedKind(r) ==
    LET e == IF r.decode /= "ok" THEN r.decode ELSE r.export
    IN  CASE e = "ok"                 -> "converted"
          [] e = "CouldntDecodeError" -> "decode_failed"
          [] e = "FileNotFoundError"  -> "file_missing"
          [] OTHER                    -> "unexpected"

\* C9: the outcome lines are one per concluded attempt; the k-th one comes
\* after the k-th "found" line and before the next "found" line, and its
\* kind is the one the attempt's decode and export results call for; no
\* name is found or attempted twice.
C9_OneOutcomePerCandidate ==
    LET F == Lines("found")
        O == {i \in 1..Len(out) : out[i].kind \in OutcomeKinds}
    IN  /\ Cardinality(O) = Len(results)
        /\ Cardinality(F) - Cardinality(O) =
              (IF pc \in {"decode", "export"} THEN 1 ELSE 0)
        /\ \A k \in 1..Len(results) :
              /\ Kth(F, k) < Kth(O, k)
              /\ k < Cardinality(F) => Kth(O, k) < Kth(F, k + 1)
              /\ out[Kth(O, k)].kind = ExpectedKind(results[k])
        /\ \A f \in AllNames :
              /\ Cardinality(AttemptsOf(f)) <= 1
              /\ Cardinality({i \in F : out[i].file = f}) <= 1

\* a run ended after a conversion, an export that raised FileNotFoundError
\* and a decode failure, in that order
C9_Witness ==
    /\ Ended
    /\ Len(results) = 3
    /\ results[1].export = "ok"
    /\ results[2].export = "FileNotFoundError"
    /\ results[3].decode = "CouldntDecodeError"

\* C10: the directory is listed at most once; the attempts made so far are
\* the names ending with ".mp3" among the entries the loop has reached, in
\* listing order; at most one attempt is open, and only while it is being
\* exported; a name that is not in the listing is never attempted.
C10_ListedOnceProcessedInOrder ==
    /\ listCalls <= 1
    /\ listed => listCalls = 1
    /\ LET reached == IF pc = "export" THEN idx ELSE idx - 1
           upto == IF reached > Len(listing) THEN Len(listing) ELSE reached
           due == SelectSeq(SubSeq(listing, 1, upto), EndsMp3)
       IN  /\ Len(attempts) = Len(due)
           /\ \A k \in 1..Len(due) : attempts[k].src = InDir(due[k])
    /\ Len(attempts) - Len(results) = (IF pc = "export" THEN 1 ELSE 0)
    /\ \A n \in AllNames \ Listed : AttemptsOf(n) = {}
    /\ pc \in {"final", "exited"} /\ listed => idx = Len(listing) + 1

\* a run ended with n.mp3 and a.b.wav in the directory, both created after
\* the listing was taken, and two attempts made
C10_Witness ==
    /\ Ended
    /\ Len(attempts) >= 2
    /\ n_mp3 \notin Listed /\ fs[n_mp3] = "orig"
    /\ a_b_wav \notin Listed /\ fs[a_b_wav] = "wav"

====
